---- MODULE Spec2Model ----
(***************************************************************************)
(* Model of consumers/consumer_webb.py: the keyword-popularity consumer.   *)
(* main() reads its configuration, deletes a prior database file,          *)
(* initialises the keyword_popularity table and calls                      *)
(* consume_messages_from_file(), which initialises the table again, sets   *)
(* last_position to 0 and reads the live data file line by line, calling   *)
(* process_message() and update_keyword_count() for every line.            *)
(*                                                                         *)
(* The live data file is a sequence of text chunks written by an external  *)
(* producer.  A chunk stands for a fixed piece of text:                    *)
(*   recA    {"timestamp":"2025-01-29 14:35:20","keyword_mentioned":"meme"}*)
(*   recB    {"timestamp":"2025-01-29 00:05:00",                           *)
(*            "keyword_mentioned":"python","author":"Charlie"}             *)
(*   noKw    {"timestamp":"2025-01-29 23:59:59"}                           *)
(*   emptyTs {"timestamp":"","keyword_mentioned":"meme"}                   *)
(*   badTs   {"timestamp":"2025-01-29 24:00:00","keyword_mentioned":"meme"}*)
(*   notObj  [1, 2]                                                        *)
(*   garbage not json                                                      *)
(*   headA   {"timestamp":"2025-01-29 14:35:20",                           *)
(*   tailA   "keyword_mentioned":"meme"}                                   *)
(*   NL      the newline character                                         *)
(***************************************************************************)
EXTENDS Integers, Sequences, FiniteSets, TLC

\* Bounds of the model.
MaxWrites == 3
MaxTime == 2
MaxFairWrites == 2

VARIABLES
    pc,             \* position of main() / consume_messages_from_file()
    exitStatus,     \* status the process ended with (-1 while running)
    fileExists,     \* whether live_data_path exists
    file,           \* content of the live data file: a sequence of chunks
    writes,         \* number of writes the producer has made
    idx,            \* the open file object's read position, in chunks
    last_position,  \* consume_messages_from_file's last_position, in bytes
    dbState,        \* "nofile", "notable" or "ready"
    rows,           \* rows of table keyword_popularity
    now,            \* the wall clock read by datetime.now()
    logged,         \* kinds of logger.warning / logger.error calls made
    consumed,       \* the lines the for loop has yielded so far
    wpc,            \* concurrent calls of update_keyword_count: position
    wargs,          \* their hour, keyword, current_time and cursor.rowcount
    wview,          \* the rows their open transaction sees
    lock,           \* the connection holding the database write lock, or 0
    prev            \* what the previous run of the process consumed and left

\* State of the calls of update_keyword_count that run concurrently.
wvars == <<wpc, wargs, wview, lock>>

vars == <<pc, exitStatus, fileExists, file, writes, idx, last_position,
          dbState, rows, now, logged, consumed, wpc, wargs, wview, lock,
          prev>>

-----------------------------------------------------------------------------
\* Text of the live data file

NL == "NL"

\* Byte length of the text a chunk stands for.
ChunkLen(c) ==
    CASE c = "recA" -> 62
      [] c = "recB" -> 83
      [] c = "noKw" -> 35
      [] c = "emptyTs" -> 43
      [] c = "badTs" -> 62
      [] c = "notObj" -> 6
      [] c = "garbage" -> 8
      [] c = "headA" -> 35
      [] c = "tailA" -> 27
      [] c = NL -> 1

RECURSIVE Bytes(_)
Bytes(s) == IF s = <<>> THEN 0 ELSE ChunkLen(Head(s)) + Bytes(Tail(s))

\* What one write of the producer appends to the file.
ProducerWrites ==
    { <<"recA", NL>>, <<"recB", NL>>, <<"noKw", NL>>, <<"emptyTs", NL>>,
      <<"badTs", NL>>, <<"notObj", NL>>, <<"garbage", NL>>, <<NL>>,
      <<"headA">>, <<"tailA", NL>>, <<"recA">> }

\* file.seek(offset): the chunk index at byte offset `offset`.
Seek(f, offset) ==
    CHOOSE i \in 0..Len(f) : Bytes(SubSeq(f, 1, i)) = offset

\* file.tell(): the byte offset of chunk index i.
Tell(f, i) == Bytes(SubSeq(f, 1, i))

\* `for line in file`: the line that starts after chunk i ends with its
\* newline, or at end-of-file when no newline follows.
LineEnd(f, i) ==
    IF \E j \in (i + 1)..Len(f) : f[j] = NL
    THEN CHOOSE j \in (i + 1)..Len(f) :
             /\ f[j] = NL
             /\ \A k \in (i + 1)..(j - 1) : f[k] # NL
    ELSE Len(f)

\* line.strip(): leading and trailing whitespace removed.
Whitespace == {NL}

RECURSIVE Strip(_)
Strip(s) ==
    IF s = <<>> THEN s
    ELSE IF Head(s) \in Whitespace THEN Strip(Tail(s))
    ELSE IF s[Len(s)] \in Whitespace THEN Strip(SubSeq(s, 1, Len(s) - 1))
    ELSE s

-----------------------------------------------------------------------------
\* JSON values

JNone == [kind |-> "none"]
JStr(t) == [kind |-> "str", text |-> t]
JDict(f) == [kind |-> "dict", fields |-> f]
JList == [kind |-> "list"]

\* A timestamp text is the tuple of its numeric fields, or <<>> for "".
TsA == <<2025, 1, 29, 14, 35, 20>>
TsB == <<2025, 1, 29, 0, 5, 0>>
TsC == <<2025, 1, 29, 23, 59, 59>>
TsBad == <<2025, 1, 29, 24, 0, 0>>

MessageA == JDict([timestamp |-> JStr(TsA), keyword_mentioned |-> JStr("meme")])

\* json.loads(text): the value, or a JSONDecodeError.
json_loads(s) ==
    CASE s = <<"recA">> -> [ok |-> TRUE, value |-> MessageA]
      [] s = <<"headA", "tailA">> -> [ok |-> TRUE, value |-> MessageA]
      [] s = <<"recB">> ->
            [ok |-> TRUE,
             value |-> JDict([timestamp |-> JStr(TsB),
                              keyword_mentioned |-> JStr("python"),
                              author |-> JStr("Charlie")])]
      [] s = <<"noKw">> ->
            [ok |-> TRUE, value |-> JDict([timestamp |-> JStr(TsC)])]
      [] s = <<"emptyTs">> ->
            [ok |-> TRUE,
             value |-> JDict([timestamp |-> JStr(<<>>),
                              keyword_mentioned |-> JStr("meme")])]
      [] s = <<"badTs">> ->
            [ok |-> TRUE,
             value |-> JDict([timestamp |-> JStr(TsBad),
                              keyword_mentioned |-> JStr("meme")])]
      [] s = <<"notObj">> -> [ok |-> TRUE, value |-> JList]
      [] OTHER -> [ok |-> FALSE, value |-> JNone]

\* message.get(key): raises AttributeError when message is no dict.
HasGet(m) == m.kind = "dict"
Get(m, key) == IF key \in DOMAIN m.fields THEN m.fields[key] ELSE JNone

\* Python truthiness of a field value: None and "" are falsy.
TruthyTimestamp(v) == v.kind = "str" /\ v.text # <<>>
TruthyKeyword(v) == v.kind = "str" /\ v.text # ""

DaysInMonth(y, m) ==
    IF m \in {4, 6, 9, 11} THEN 30
    ELSE IF m = 2
         THEN (IF (y % 4 = 0 /\ y % 100 # 0) \/ y % 400 = 0 THEN 29 ELSE 28)
         ELSE 31

\* Mutant of strptime: the fields are not range-checked.
strptime_NoRangeCheck(t) ==
    IF Len(t) = 6
    THEN [ok |-> TRUE, hour |-> t[4]]
    ELSE [ok |-> FALSE, hour |-> -1]

\* datetime.strptime(text, "%Y-%m-%d %H:%M:%S"): the datetime, or ValueError.
strptime(t) ==
    IF /\ Len(t) = 6
       /\ t[1] \in 1..9999
       /\ t[2] \in 1..12
       /\ t[3] \in 1..DaysInMonth(t[1], t[2])
       /\ t[4] \in 0..23
       /\ t[5] \in 0..59
       /\ t[6] \in 0..61
    THEN [ok |-> TRUE, hour |-> t[4]]
    ELSE [ok |-> FALSE, hour |-> -1]

\* process_message(message): the processed data, or None with what was logged.
None(why) == [ok |-> FALSE, hour_of_day |-> -1, keyword |-> "", log |-> why]

process_message(message) ==
    IF ~HasGet(message) THEN None("message_error")
    ELSE LET timestamp_str == Get(message, "timestamp")
             keyword == Get(message, "keyword_mentioned")
         IN IF ~TruthyTimestamp(timestamp_str) \/ ~TruthyKeyword(keyword)
            THEN None("message_missing")
            ELSE LET timestamp == strptime(timestamp_str.text)
                 IN IF ~timestamp.ok THEN None("message_error")
                    ELSE [ok |-> TRUE, hour_of_day |-> timestamp.hour,
                          keyword |-> keyword.text, log |-> "none"]

-----------------------------------------------------------------------------
\* Table keyword_popularity

Row(hour, keyword, count, t) ==
    [hour_of_day |-> hour, keyword |-> keyword, count |-> count,
     last_updated |-> t]

Matching(rs, hour, keyword) ==
    {r \in rs : r.hour_of_day = hour /\ r.keyword = keyword}

\* Mutants of SqlUpdate: the count is not incremented; last_updated is not set.
SqlUpdate_NoIncrement(rs, hour, keyword, current_time) ==
    {IF r \in Matching(rs, hour, keyword)
     THEN [r EXCEPT !.last_updated = current_time]
     ELSE r : r \in rs}

SqlUpdate_StaleTime(rs, hour, keyword, current_time) ==
    {IF r \in Matching(rs, hour, keyword)
     THEN [r EXCEPT !.count = @ + 1]
     ELSE r : r \in rs}

\* UPDATE keyword_popularity SET count = count + 1, last_updated = ? WHERE ...
SqlUpdate(rs, hour, keyword, current_time) ==
    {IF r \in Matching(rs, hour, keyword)
     THEN [r EXCEPT !.count = @ + 1, !.last_updated = current_time]
     ELSE r : r \in rs}

\* cursor.rowcount after the UPDATE.
RowCount(rs, hour, keyword) == Cardinality(Matching(rs, hour, keyword))

\* INSERT INTO keyword_popularity (...) VALUES (?, ?, 1, ?)
SqlInsert(rs, hour, keyword, current_time) ==
    rs \cup {Row(hour, keyword, 1, current_time)}

\* Mutant of update_keyword_count: the row of the key is replaced by a new
\* row of count 1.
update_keyword_count_Replace(rs, hour, keyword, current_time) ==
    (rs \ Matching(rs, hour, keyword)) \cup {Row(hour, keyword, 1, current_time)}

\* The rows update_keyword_count commits when storage works.
update_keyword_count(rs, hour, keyword, current_time) ==
    IF RowCount(rs, hour, keyword) = 0
    THEN SqlInsert(SqlUpdate(rs, hour, keyword, current_time),
                   hour, keyword, current_time)
    ELSE SqlUpdate(rs, hour, keyword, current_time)

\* Rows a previous run may have left in the database file.
StaleRows == {Row(14, "meme", 2, 0), Row(9, "old", 1, 0)}

-----------------------------------------------------------------------------
\* Concurrent callers of update_keyword_count (used by SpecWriters only).
Writers == {1, 2}
NoCall == [hour |-> -1, keyword |-> "", current_time |-> 0, rowcount |-> -1]

NoWriters ==
    /\ wpc = [w \in Writers |-> "idle"]
    /\ wargs = [w \in Writers |-> NoCall]
    /\ wview = [w \in Writers |-> {}]
    /\ lock = 0

\* The (hour_of_day, keyword, count) columns of the table.
Triples(rs) == {<<r.hour_of_day, r.keyword, r.count>> : r \in rs}

RECURSIVE Flatten(_)
Flatten(lines) == IF lines = <<>> THEN <<>> ELSE Head(lines) \o Flatten(Tail(lines))

\* The pass reached end-of-file and returned (no interrupt).
PassCompleted == pc = "done" /\ "interrupted" \notin logged

\* No previous run.
NoPrev == [completed |-> FALSE, file |-> <<>>, triples |-> {}, stored |-> TRUE]

\* Initial state: the process starts; the producer has written nothing yet.

Init ==
    /\ pc = "step1"
    /\ exitStatus = -1
    /\ fileExists \in BOOLEAN
    /\ file = <<>>
    /\ writes = 0
    /\ idx = 0
    /\ last_position = 0
    /\ \/ dbState = "nofile" /\ rows = {}
       \/ dbState = "ready" /\ rows = StaleRows
    /\ now = 0
    /\ logged = {}
    /\ consumed = <<>>
    /\ NoWriters
    /\ prev = NoPrev

\* Mutant of Exit: the SystemExit is caught by main's handlers and the
\* process ends normally.
Exit_Swallowed(status, why) ==
    /\ pc' = "done"
    /\ exitStatus' = 0
    /\ logged' = logged \cup {why}

\* sys.exit(status)
Exit(status, why) ==
    /\ pc' = "exit"
    /\ exitStatus' = status
    /\ logged' = logged \cup {why}

\* The external producer appends to the live data file (creating it).
ProducerAppend ==
    /\ writes < MaxWrites
    /\ \E w \in ProducerWrites :
         /\ file' = file \o w
         /\ fileExists' = TRUE
         /\ writes' = writes + 1
    /\ UNCHANGED <<pc, exitStatus, idx, last_position, dbState, rows, now,
                   logged, consumed>>
    /\ UNCHANGED <<wvars, prev>>

\* main STEP 1: read the environment; any exception is fatal with status 1.
ReadConfig ==
    /\ pc = "step1"
    /\ \/ pc' = "step2" /\ UNCHANGED <<exitStatus, logged>>
       \/ Exit(1, "config")
    /\ UNCHANGED <<fileExists, file, writes, idx, last_position, dbState, rows,
                   now, consumed>>
    /\ UNCHANGED <<wvars, prev>>

\* Mutant of DeletePriorDb: the prior database file is kept.
DeletePriorDb_Skip ==
    /\ pc = "step2"
    /\ pc' = "step3"
    /\ UNCHANGED <<exitStatus, logged, dbState, rows>>
    /\ UNCHANGED <<fileExists, file, writes, idx, last_position, now, consumed>>
    /\ UNCHANGED <<wvars, prev>>

\* main STEP 2: delete a prior database file; a failure is fatal with status 2.
DeletePriorDb ==
    /\ pc = "step2"
    /\ IF dbState = "nofile"
       THEN pc' = "step3" /\ UNCHANGED <<exitStatus, logged, dbState, rows>>
       ELSE \/ /\ pc' = "step3"
               /\ dbState' = "nofile"
               /\ rows' = {}
               /\ UNCHANGED <<exitStatus, logged>>
            \/ Exit(2, "unlink") /\ UNCHANGED <<dbState, rows>>
    /\ UNCHANGED <<fileExists, file, writes, idx, last_position, now, consumed>>
    /\ UNCHANGED <<wvars, prev>>

\* init_keyword_db: DROP TABLE IF EXISTS, CREATE TABLE, commit.  Any exception
\* is logged and swallowed; the DROP may or may not have been applied.
init_keyword_db ==
    \/ /\ dbState' = "ready"
       /\ rows' = {}
       /\ UNCHANGED logged
    \/ /\ logged' = logged \cup {"init"}
       /\ \/ UNCHANGED <<dbState, rows>>
          \/ dbState # "nofile" /\ dbState' = "notable" /\ rows' = {}

\* main STEP 3: init_keyword_db never raises, so status 3 is never used.
InitDbMain ==
    /\ pc = "step3"
    /\ init_keyword_db
    /\ pc' = "consume"
    /\ UNCHANGED <<exitStatus, fileExists, file, writes, idx, last_position,
                   now, consumed>>
    /\ UNCHANGED <<wvars, prev>>

\* consume_messages_from_file up to the while loop: initialise the database
\* again and set last_position to 0.
ConsumeStart ==
    /\ pc = "consume"
    /\ init_keyword_db
    /\ last_position' = 0
    /\ pc' = "open"
    /\ UNCHANGED <<exitStatus, fileExists, file, writes, idx, now, consumed>>
    /\ UNCHANGED <<wvars, prev>>

\* open(live_data_path) and file.seek(last_position).
OpenFile ==
    /\ pc = "open"
    /\ IF ~fileExists
       THEN Exit(10, "not_found") /\ UNCHANGED idx
       ELSE \/ /\ idx' = Seek(file, last_position)
               /\ pc' = "lines"
               /\ UNCHANGED <<exitStatus, logged>>
            \/ Exit(11, "read_error") /\ UNCHANGED idx
    /\ UNCHANGED <<fileExists, file, writes, last_position, dbState, rows, now,
                   consumed>>
    /\ UNCHANGED <<wvars, prev>>

\* Mutant of NextLine: the line is taken from the start of the file again.
NextLine_FromStart == SubSeq(file, 1, LineEnd(file, idx))

\* The line the for loop yields next, and where it ends.
NextLine == SubSeq(file, idx + 1, LineEnd(file, idx))

YieldLine ==
    /\ pc = "lines"
    /\ idx < Len(file)
    /\ idx' = LineEnd(file, idx)
    /\ consumed' = Append(consumed, NextLine)

\* A line that is blank after strip() is skipped.
BlankLine ==
    /\ YieldLine
    /\ Strip(NextLine) = <<>>
    /\ UNCHANGED <<pc, exitStatus, fileExists, file, writes, last_position,
                   dbState, rows, now, logged>>
    /\ UNCHANGED <<wvars, prev>>

\* Mutant of JsonError: the increments of the pass are one open transaction
\* that the fatal exit rolls back.
JsonError_Rollback ==
    /\ pc = "lines"
    /\ idx < Len(file)
    /\ idx' = LineEnd(file, idx)
    /\ consumed' = Append(consumed, SubSeq(file, idx + 1, LineEnd(file, idx)))
    /\ Strip(SubSeq(file, idx + 1, LineEnd(file, idx))) # <<>>
    /\ ~json_loads(Strip(SubSeq(file, idx + 1, LineEnd(file, idx)))).ok
    /\ Exit(11, "read_error")
    /\ rows' = {}
    /\ UNCHANGED <<fileExists, file, writes, last_position, dbState, now>>
    /\ UNCHANGED <<wvars, prev>>

\* json.loads raises: caught by `except Exception`, sys.exit(11).
JsonError ==
    /\ YieldLine
    /\ Strip(NextLine) # <<>>
    /\ ~json_loads(Strip(NextLine)).ok
    /\ Exit(11, "read_error")
    /\ UNCHANGED <<fileExists, file, writes, last_position, dbState, rows, now>>
    /\ UNCHANGED <<wvars, prev>>

\* Mutant of SkipMessage: the error of the record escapes process_message
\* and ends the pass.
SkipMessage_Fatal ==
    /\ pc = "lines"
    /\ idx < Len(file)
    /\ idx' = LineEnd(file, idx)
    /\ consumed' = Append(consumed, SubSeq(file, idx + 1, LineEnd(file, idx)))
    /\ Strip(SubSeq(file, idx + 1, LineEnd(file, idx))) # <<>>
    /\ json_loads(Strip(SubSeq(file, idx + 1, LineEnd(file, idx)))).ok
    /\ ~process_message(
           json_loads(Strip(SubSeq(file, idx + 1, LineEnd(file, idx)))).value).ok
    /\ Exit(11, "read_error")
    /\ UNCHANGED <<fileExists, file, writes, last_position, dbState, rows, now>>
    /\ UNCHANGED <<wvars, prev>>

\* process_message returns None: the line is skipped.
SkipMessage ==
    /\ YieldLine
    /\ Strip(NextLine) # <<>>
    /\ json_loads(Strip(NextLine)).ok
    /\ LET processed_data == process_message(json_loads(Strip(NextLine)).value)
       IN /\ ~processed_data.ok
          /\ logged' = logged \cup {processed_data.log}
    /\ UNCHANGED <<pc, exitStatus, fileExists, file, writes, last_position,
                   dbState, rows, now>>
    /\ UNCHANGED <<wvars, prev>>

\* Mutant of CountMessage: the storage error is not caught in
\* update_keyword_count and reaches the `except Exception` of the while loop.
CountMessage_Raises ==
    /\ pc = "lines"
    /\ idx < Len(file)
    /\ idx' = LineEnd(file, idx)
    /\ consumed' = Append(consumed, SubSeq(file, idx + 1, LineEnd(file, idx)))
    /\ Strip(SubSeq(file, idx + 1, LineEnd(file, idx))) # <<>>
    /\ json_loads(Strip(SubSeq(file, idx + 1, LineEnd(file, idx)))).ok
    /\ LET processed_data ==
             process_message(
                 json_loads(Strip(SubSeq(file, idx + 1, LineEnd(file, idx)))).value)
       IN /\ processed_data.ok
          /\ \E current_time \in now..(IF now < MaxTime THEN now + 1 ELSE now) :
               /\ now' = current_time
               /\ \/ /\ dbState = "ready"
                     /\ rows' = update_keyword_count(rows,
                                    processed_data.hour_of_day,
                                    processed_data.keyword, current_time)
                     /\ UNCHANGED <<pc, exitStatus, logged>>
                  \/ /\ pc' = "exit"
                     /\ exitStatus' = 11
                     /\ logged' = logged \cup {"read_error"}
                     /\ UNCHANGED rows
    /\ UNCHANGED <<fileExists, file, writes, last_position, dbState>>
    /\ UNCHANGED <<wvars, prev>>

\* process_message returns data: update_keyword_count is called.  The clock
\* may have advanced; a storage error is logged and swallowed.
CountMessage ==
    /\ YieldLine
    /\ Strip(NextLine) # <<>>
    /\ json_loads(Strip(NextLine)).ok
    /\ LET processed_data == process_message(json_loads(Strip(NextLine)).value)
       IN /\ processed_data.ok
          /\ \E current_time \in now..(IF now < MaxTime THEN now + 1 ELSE now) :
               /\ now' = current_time
               /\ \/ /\ dbState = "ready"
                     /\ rows' = update_keyword_count(rows,
                                    processed_data.hour_of_day,
                                    processed_data.keyword, current_time)
                     /\ UNCHANGED logged
                  \/ /\ logged' = logged \cup {"update"}
                     /\ UNCHANGED rows
    /\ UNCHANGED <<pc, exitStatus, fileExists, file, writes, last_position,
                   dbState>>
    /\ UNCHANGED <<wvars, prev>>

\* Mutant of ReturnLastPosition: the while loop goes on to its next
\* iteration from the new last_position.
ReturnLastPosition_Loops ==
    /\ pc = "lines"
    /\ idx = Len(file)
    /\ last_position' = Tell(file, idx)
    /\ pc' = "open"
    /\ UNCHANGED <<exitStatus, fileExists, file, writes, idx, dbState, rows, now,
                   logged, consumed>>
    /\ UNCHANGED <<wvars, prev>>

\* End of file: last_position = file.tell(), return; main's finally block
\* logs the shutdown and the process ends normally.
ReturnLastPosition ==
    /\ pc = "lines"
    /\ idx = Len(file)
    /\ last_position' = Tell(file, idx)
    /\ pc' = "done"
    /\ exitStatus' = 0
    /\ UNCHANGED <<fileExists, file, writes, idx, dbState, rows, now, logged,
                   consumed>>
    /\ UNCHANGED <<wvars, prev>>

\* Mutant of Interrupt: the KeyboardInterrupt is not caught and ends the
\* process with the interpreter's error status.
Interrupt_Uncaught ==
    /\ pc \in {"consume", "open", "lines"}
    /\ pc' = "exit"
    /\ exitStatus' = 130
    /\ UNCHANGED <<fileExists, file, writes, idx, last_position, dbState, rows,
                   now, consumed, logged>>
    /\ UNCHANGED <<wvars, prev>>

\* KeyboardInterrupt inside consume_messages_from_file: caught by main.
Interrupt ==
    /\ pc \in {"consume", "open", "lines"}
    /\ pc' = "done"
    /\ exitStatus' = 0
    /\ logged' = logged \cup {"interrupted"}
    /\ UNCHANGED <<fileExists, file, writes, idx, last_position, dbState, rows,
                   now, consumed>>
    /\ UNCHANGED <<wvars, prev>>

Next ==
    \/ ProducerAppend
    \/ ReadConfig
    \/ DeletePriorDb
    \/ InitDbMain
    \/ ConsumeStart
    \/ OpenFile
    \/ BlankLine
    \/ JsonError
    \/ SkipMessage
    \/ CountMessage
    \/ ReturnLastPosition
    \/ Interrupt

Spec == Init /\ [][Next]_vars

\* The process has completed its pass and ended, and is run again (`python -m
\* consumers.consumer_webb` a second time): the file and the database file are
\* as the run left them; what it consumed and stored is remembered in prev.
\* (A run after a failed or interrupted one starts like the first run, with
\* a stale database file.)
\* The steps of the consumer process; the interpreter keeps executing them.
ConsumerStep ==
    \/ ReadConfig
    \/ DeletePriorDb
    \/ InitDbMain
    \/ ConsumeStart
    \/ OpenFile
    \/ BlankLine
    \/ JsonError
    \/ SkipMessage
    \/ CountMessage
    \/ ReturnLastPosition

\* The process under a fair scheduler, with a producer of at most MaxFairWrites
\* writes.
NextFair ==
    \/ ProducerAppend /\ writes < MaxFairWrites
    \/ ConsumerStep
    \/ Interrupt

SpecFair == Init /\ [][NextFair]_vars /\ WF_vars(ConsumerStep)

\* A second run of the process after a completed one.
Restart ==
    /\ PassCompleted
    /\ prev' = [completed |-> TRUE, file |-> Flatten(consumed),
                triples |-> Triples(rows), stored |-> "update" \notin logged]
    /\ pc' = "step1"
    /\ exitStatus' = -1
    /\ idx' = 0
    /\ last_position' = 0
    /\ logged' = {}
    /\ consumed' = <<>>
    /\ UNCHANGED <<fileExists, file, writes, dbState, rows, now>>
    /\ UNCHANGED wvars

NextRuns ==
    \/ Next
    \/ Restart

SpecRuns == Init /\ [][NextRuns]_vars

-----------------------------------------------------------------------------
\* update_keyword_count statement by statement, for calls that run
\* concurrently on connections of their own (two consumers on one database
\* file).  sqlite3 opens a transaction before the UPDATE; the UPDATE takes
\* the database write lock, also when it matches no row, and conn.commit()
\* releases it.  A connection that cannot get the lock within the connect
\* timeout raises OperationalError, which the except clause logs.

MainIdle ==
    UNCHANGED <<pc, exitStatus, fileExists, file, writes, idx, last_position,
                dbState, consumed, prev>>

\* The table is initialised; it is empty or holds a row of another key.
InitWriters ==
    /\ pc = "lines"
    /\ exitStatus = -1
    /\ fileExists = TRUE
    /\ file = <<>>
    /\ writes = 0
    /\ idx = 0
    /\ last_position = 0
    /\ dbState = "ready"
    /\ rows \in {{}, {Row(9, "old", 1, 0)}}
    /\ now = 0
    /\ logged = {}
    /\ consumed = <<>>
    /\ NoWriters
    /\ prev = NoPrev

\* Entry of update_keyword_count(hour, keyword, db_path): current_time is read.
WriterCall(w) ==
    /\ wpc[w] = "idle"
    /\ \E k \in {<<14, "meme">>, <<0, "python">>} :
       \E t \in now..(IF now < MaxTime THEN now + 1 ELSE now) :
         /\ now' = t
         /\ wargs' = [wargs EXCEPT ![w] = [hour |-> k[1], keyword |-> k[2],
                                           current_time |-> t, rowcount |-> -1]]
    /\ wpc' = [wpc EXCEPT ![w] = "connected"]
    /\ UNCHANGED <<rows, logged, wview, lock>>
    /\ MainIdle

\* Mutant of WriterUpdate: the UPDATE runs without taking the write lock.
WriterUpdate_NoLock(w) ==
    /\ wpc[w] = "connected"
    /\ wview' = [wview EXCEPT ![w] =
                   SqlUpdate(rows, wargs[w].hour, wargs[w].keyword,
                             wargs[w].current_time)]
    /\ wargs' = [wargs EXCEPT ![w].rowcount =
                   RowCount(rows, wargs[w].hour, wargs[w].keyword)]
    /\ wpc' = [wpc EXCEPT ![w] = "updated"]
    /\ UNCHANGED <<rows, now, logged, lock>>
    /\ MainIdle

\* The UPDATE statement: begins the transaction and takes the write lock.
WriterUpdate(w) ==
    /\ wpc[w] = "connected"
    /\ lock = 0
    /\ lock' = w
    /\ wview' = [wview EXCEPT ![w] =
                   SqlUpdate(rows, wargs[w].hour, wargs[w].keyword,
                             wargs[w].current_time)]
    /\ wargs' = [wargs EXCEPT ![w].rowcount =
                   RowCount(rows, wargs[w].hour, wargs[w].keyword)]
    /\ wpc' = [wpc EXCEPT ![w] = "updated"]
    /\ UNCHANGED <<rows, now, logged>>
    /\ MainIdle

\* The UPDATE statement while another connection holds the lock: it waits,
\* and on timeout raises "database is locked"; the error is logged.
WriterBusy(w) ==
    /\ wpc[w] = "connected"
    /\ lock \notin {0, w}
    /\ wpc' = [wpc EXCEPT ![w] = "failed"]
    /\ logged' = logged \cup {"update"}
    /\ UNCHANGED <<rows, now, wargs, wview, lock>>
    /\ MainIdle

\* `if cursor.rowcount == 0:` the INSERT statement.  The UNIQUE constraint
\* rejects a second row of the key: IntegrityError, rollback, logged.
WriterInsert(w) ==
    /\ wpc[w] = "updated"
    /\ IF wargs[w].rowcount # 0
       THEN /\ wpc' = [wpc EXCEPT ![w] = "written"]
            /\ UNCHANGED <<wview, lock, logged>>
       ELSE IF Matching(wview[w], wargs[w].hour, wargs[w].keyword) # {}
       THEN /\ wpc' = [wpc EXCEPT ![w] = "failed"]
            /\ lock' = (IF lock = w THEN 0 ELSE lock)
            /\ logged' = logged \cup {"update", "integrity"}
            /\ UNCHANGED wview
       ELSE /\ wview' = [wview EXCEPT ![w] =
                           SqlInsert(wview[w], wargs[w].hour, wargs[w].keyword,
                                     wargs[w].current_time)]
            /\ wpc' = [wpc EXCEPT ![w] = "written"]
            /\ UNCHANGED <<lock, logged>>
    /\ UNCHANGED <<rows, now, wargs>>
    /\ MainIdle

\* conn.commit(): the transaction's rows become the table; the lock is freed.
WriterCommit(w) ==
    /\ wpc[w] = "written"
    /\ rows' = wview[w]
    /\ lock' = (IF lock = w THEN 0 ELSE lock)
    /\ wpc' = [wpc EXCEPT ![w] = "done"]
    /\ UNCHANGED <<now, logged, wargs, wview>>
    /\ MainIdle

NextWriters ==
    \/ \E w \in Writers : WriterCall(w)
    \/ \E w \in Writers : WriterUpdate(w)
    \/ \E w \in Writers : WriterBusy(w)
    \/ \E w \in Writers : WriterInsert(w)
    \/ \E w \in Writers : WriterCommit(w)

SpecWriters == InitWriters /\ [][NextWriters]_vars

-----------------------------------------------------------------------------
\* One pass of the for loop over a list of lines, as a function of the lines:
\* the rows it leaves when every increment is committed (clock at 0).  A
\* JSONDecodeError ends the pass.
RECURSIVE PassRows(_, _)
PassRows(lines, rs) ==
    IF lines = <<>> THEN rs
    ELSE LET s == Strip(Head(lines))
         IN IF s = <<>> THEN PassRows(Tail(lines), rs)
            ELSE IF ~json_loads(s).ok THEN rs
            ELSE LET processed_data == process_message(json_loads(s).value)
                 IN IF ~processed_data.ok THEN PassRows(Tail(lines), rs)
                    ELSE PassRows(Tail(lines),
                             update_keyword_count(rs, processed_data.hour_of_day,
                                                  processed_data.keyword, 0))

-----------------------------------------------------------------------------
\* Vocabulary of the properties.  The classification of a line is written
\* down from the text the chunks stand for, independently of the operators
\* above that model the code.

NoKey == <<-1, "">>
KeyA == <<14, "meme">>
KeyB == <<0, "python">>
Keys == {KeyA, KeyB}

Text(line) == SelectSeq(line, LAMBDA c : c # NL)
Terminated(line) == line # <<>> /\ line[Len(line)] = NL

\* The key a line is a valid observation of: the line is a JSON record with a
\* non-empty timestamp of format YYYY-MM-DD HH:MM:SS and a non-empty keyword.
ValidKey(line) ==
    CASE Text(line) = <<"recA">> -> KeyA
      [] Text(line) = <<"headA", "tailA">> -> KeyA
      [] Text(line) = <<"recB">> -> KeyB
      [] OTHER -> NoKey

IsValid(line) == ValidKey(line) # NoKey
IsBlank(line) == Text(line) = <<>>
\* JSON records that lack a field or carry an unparseable timestamp, and JSON
\* values that are no record.
IsSkippable(line) ==
    Text(line) \in {<<"noKw">>, <<"emptyTs">>, <<"badTs">>, <<"notObj">>}
\* Not JSON at all.
IsInvalidJson(line) == ~IsValid(line) /\ ~IsBlank(line) /\ ~IsSkippable(line)
IsMalformed(line) == IsSkippable(line) \/ IsInvalidJson(line)

NumObs(lines, key) ==
    Cardinality({i \in 1..Len(lines) : ValidKey(lines[i]) = key})
ExpectedTriples(lines) ==
    {<<k[1], k[2], NumObs(lines, k)>> : k \in {q \in Keys : NumObs(lines, q) > 0}}

CountOf(rs, key) ==
    IF \E r \in rs : <<r.hour_of_day, r.keyword>> = key
    THEN (CHOOSE r \in rs : <<r.hour_of_day, r.keyword>> = key).count
    ELSE 0

Perms(n) ==
    {p \in [1..n -> 1..n] : \A i, j \in 1..n : i # j => p[i] # p[j]}
Permute(lines, p) == [i \in 1..Len(lines) |-> lines[p[i]]]


\* consume_messages_from_file has been entered.
InConsume == pc \in {"open", "lines", "done"} \/ (pc = "exit" /\ exitStatus >= 10)
\* The step yields a line from the for loop.
LineStep == pc = "lines" /\ consumed' # consumed

-----------------------------------------------------------------------------
-----------------------------------------------------------------------------
\* C2 (as stated): a malformed line (not JSON, or a record lacking timestamp
\* or keyword) changes no row and does not halt the pass: the for loop goes
\* on with the lines that follow.
C2_MalformedLineResilience ==
    [][(/\ LineStep
        /\ logged = {}
        /\ dbState = "ready"
        /\ Terminated(NextLine)
        /\ IsMalformed(NextLine)
        /\ LET j == LineEnd(file, idx)
           IN /\ j < Len(file)
              /\ IsValid(SubSeq(file, j + 1, LineEnd(file, j)))
              /\ Terminated(SubSeq(file, j + 1, LineEnd(file, j))))
          => (rows' = rows /\ pc' = "lines")]_vars

\* C3 (as stated): a missing source file at read time is fatal, and no step
\* that handles a line ever terminates the consumer.
C3_OnlyFileAccessTerminates ==
    [][/\ (pc = "open" /\ ~fileExists /\ pc' # pc /\ "interrupted" \notin logged')
            => (pc' = "exit" /\ exitStatus' > 0)
       /\ (LineStep /\ logged = {} /\ dbState = "ready" /\ Terminated(NextLine))
            => (pc' # "exit" /\ exitStatus' = exitStatus)]_vars

\* C4: the read offset never decreases, and what the for loop has yielded is
\* exactly the part of the file before the read position, chunk for chunk: no
\* line is yielded twice, also when the producer appends during the pass.
C4_OffsetMonotoneNoReprocessing ==
    /\ [](Flatten(consumed) = SubSeq(file, 1, idx))
    /\ [][last_position' >= last_position /\ idx' >= idx]_vars

C4_Witness ==
    /\ PassCompleted
    /\ Len(consumed) >= 2
    /\ last_position > 0
    /\ Bytes(file) > last_position

\* C5 (as stated): an unterminated line at end-of-file is not consumed: after
\* a completed pass every line the for loop has yielded is newline-terminated
\* and the cursor stands right after a newline (or at 0).
C5_PartialLineNotConsumed ==
    (PassCompleted /\ logged = {}) =>
        /\ \A i \in 1..Len(consumed) : Terminated(consumed[i])
        /\ last_position = 0 \/ file[Seek(file, last_position)] = NL

\* C6 (as stated): the consumer leaves READING only to IDLE (pass completed;
\* another pass follows after the poll interval) or to TERMINATED (fatal
\* file-access error).
C6_PassReturnsToIdle ==
    [][(pc = "lines" /\ pc' # "lines" /\ "interrupted" \notin logged')
          => pc' \in {"idle", "exit"}]_vars

\* C7: the table holds at most one row per (hour_of_day, keyword), every row
\* has hour_of_day in 0..23, a non-empty keyword and count >= 1, and the call
\* of update_keyword_count that is about to be made has an hour in 0..23 and
\* a non-empty keyword.
C7_RowsWellFormed ==
    /\ \A r1, r2 \in rows :
         (r1.hour_of_day = r2.hour_of_day /\ r1.keyword = r2.keyword) => r1 = r2
    /\ \A r \in rows : r.hour_of_day \in 0..23 /\ r.keyword # "" /\ r.count >= 1
    /\ (pc = "lines" /\ idx < Len(file) /\ json_loads(Strip(NextLine)).ok) =>
         LET processed_data == process_message(json_loads(Strip(NextLine)).value)
         IN processed_data.ok =>
              processed_data.hour_of_day \in 0..23 /\ processed_data.keyword # ""

C7_Witness ==
    /\ pc = "lines"
    /\ idx < Len(file)
    /\ IsValid(NextLine)
    /\ Cardinality(rows) = 2
    /\ \E r \in rows : r.count = 1

\* C8: a step of the pass that changes the table is the increment of the key
\* of the line just yielded: an existing row of the key gets count + 1 and
\* last_updated = the current time, an absent key gets a row with count 1 and
\* last_updated = the current time, and all other rows are left as they were;
\* no last_updated lies in the future.
C8_IncrementEffect ==
    /\ [](\A r \in rows : r.last_updated <= now)
    /\ [][(pc = "lines" /\ rows' # rows) =>
            /\ LineStep
            /\ IsValid(NextLine)
            /\ LET k == ValidKey(NextLine)
                   old == {r \in rows : <<r.hour_of_day, r.keyword>> = k}
               IN IF old # {}
                  THEN \E r \in old :
                         rows' = (rows \ {r}) \cup
                                 {Row(k[1], k[2], r.count + 1, now')}
                  ELSE rows' = rows \cup {Row(k[1], k[2], 1, now')}]_vars

C8_Witness ==
    /\ pc = "lines"
    /\ rows = {Row(14, "meme", 2, 1), Row(0, "python", 1, 0)}

\* C10: an increment that fails with a storage error is logged, leaves the
\* table as it was and does not end the pass; only that observation is lost
\* (no count exceeds the observations of its key, and after an error some
\* count is short of them).
C10_StorageErrorIsSwallowed ==
    /\ [](InConsume =>
            /\ \A k \in Keys : CountOf(rows, k) <= NumObs(consumed, k)
            /\ "update" \in logged =>
                 \E k \in Keys : CountOf(rows, k) < NumObs(consumed, k))
    /\ [][(LineStep /\ IsValid(NextLine) /\ rows' = rows) =>
            /\ pc' = "lines"
            /\ exitStatus' = exitStatus
            /\ dbState' = dbState
            /\ "update" \in logged']_vars

C10_Witness ==
    /\ pc = "lines"
    /\ "update" \in logged
    /\ Len(consumed) = 2
    /\ ValidKey(consumed[1]) = KeyA
    /\ ValidKey(consumed[2]) = KeyB
    /\ Triples(rows) = {<<0, "python", 1>>}

-----------------------------------------------------------------------------
WritersFinished == \A w \in Writers : wpc[w] \in {"done", "failed"}
SameKey ==
    /\ wargs[1].hour = wargs[2].hour
    /\ wargs[1].keyword = wargs[2].keyword
Committed(k) ==
    {w \in Writers : wpc[w] = "done" /\ <<wargs[w].hour, wargs[w].keyword>> = k}

\* C9 (as stated): two interleaving increments of the same absent key always
\* end with a count of 2.
C9_TwoIncrementsCountTwo ==
    (WritersFinished /\ SameKey) =>
        CountOf(rows, <<wargs[1].hour, wargs[1].keyword>>) = 2

\* C9 (amended): no other writer is inside its transaction between a call's
\* UPDATE and its INSERT or commit, the UNIQUE constraint is never hit, the
\* table never holds two rows of a key, and the count of a key is the number
\* of committed calls for it: 2 when both calls of one key commit.  A call
\* that times out on the lock is logged and does not count.
C9_IncrementIsAtomic ==
    /\ \A w1, w2 \in Writers :
         (w1 # w2 /\ wpc[w1] \in {"updated", "written"})
            => wpc[w2] \notin {"updated", "written"}
    /\ "integrity" \notin logged
    /\ \A r1, r2 \in rows :
         (r1.hour_of_day = r2.hour_of_day /\ r1.keyword = r2.keyword) => r1 = r2
    /\ \A k \in Keys : CountOf(rows, k) = Cardinality(Committed(k))
    /\ (\E w \in Writers : wpc[w] = "failed") => "update" \in logged

C9_Witness ==
    /\ \A w \in Writers : wpc[w] = "done"
    /\ SameKey
    /\ wargs[1].rowcount = 0
    /\ wargs[2].rowcount = 1
    /\ CountOf(rows, <<wargs[1].hour, wargs[1].keyword>>) = 2

-----------------------------------------------------------------------------
\* The exit status of each fatal failure point (sys.exit calls of main and
\* consume_messages_from_file).
FatalCauses == {"config", "unlink", "init", "not_found", "read_error"}
FatalStatus(why) ==
    CASE why = "config" -> 1
      [] why = "unlink" -> 2
      [] why = "init" -> 3
      [] why = "not_found" -> 10
      [] why = "read_error" -> 11

\* C11 (as stated): once init_keyword_db has failed the process is terminated
\* with a non-zero status and no read pass has been started.
C11_InitFailureIsFatal ==
    "init" \in logged => (pc = "exit" /\ exitStatus > 0 /\ consumed = <<>>)

\* C12 (as stated): when the first line is about to be read, the table exists
\* and is empty and the cursor is 0, whatever the database held before.
C12_FreshTableAtFirstLine ==
    (pc = "lines" /\ consumed = <<>>) =>
        /\ dbState = "ready"
        /\ rows = {}
        /\ last_position = 0
        /\ idx = 0

Consuming == pc \in {"consume", "open", "lines"}

\* C15: at every point of consumption an interrupt can be taken, and taking
\* it logs the shutdown, ends the process with status 0 and leaves the table
\* as committed; once the interrupt is logged the process has ended without an
\* error status and no row changes any more.
C15_InterruptOrderlyShutdown ==
    /\ [](Consuming =>
            ENABLED (/\ Interrupt
                     /\ "interrupted" \in logged'
                     /\ pc' = "done"
                     /\ exitStatus' = 0
                     /\ rows' = rows))
    /\ []("interrupted" \in logged => (pc = "done" /\ exitStatus = 0))
    /\ [][/\ ("interrupted" \notin logged /\ "interrupted" \in logged') =>
                (/\ Consuming
                 /\ rows' = rows
                 /\ dbState' = dbState
                 /\ consumed' = consumed)
          /\ "interrupted" \in logged =>
                (rows' = rows /\ dbState' = dbState /\ pc' = pc
                 /\ exitStatus' = exitStatus)]_vars

C15_Witness ==
    /\ "interrupted" \in logged
    /\ pc = "done"
    /\ exitStatus = 0
    /\ idx < Len(file)
    /\ Triples(rows) = {<<14, "meme", 1>>}
    /\ Len(consumed) = 1

YieldedLine == consumed'[Len(consumed')]

\* C16 (as stated): once the read pass has started no row is deleted and no
\* count decreases; the count of a key grows by exactly 1 (from no row to
\* count 1 the first time) on every valid observation of the key and does not
\* change otherwise.
C16_RowsOnlyCreatedOrIncremented ==
    [][InConsume =>
         /\ \A r \in rows : \E q \in rows' :
               /\ q.hour_of_day = r.hour_of_day
               /\ q.keyword = r.keyword
               /\ q.count >= r.count
         /\ \A key \in Keys :
               CountOf(rows', key) =
                   CountOf(rows, key)
                   + (IF LineStep /\ ValidKey(YieldedLine) = key THEN 1 ELSE 0)]_vars

\* C16 (amended): the same, except that a valid observation whose increment
\* failed with a logged storage error leaves the rows as they were.
C16_RowsOnlyCreatedOrIncrementedIfStored ==
    [][InConsume =>
         /\ \A r \in rows : \E q \in rows' :
               /\ q.hour_of_day = r.hour_of_day
               /\ q.keyword = r.keyword
               /\ q.count >= r.count
         /\ \A key \in Keys :
               IF LineStep /\ ValidKey(YieldedLine) = key
               THEN \/ CountOf(rows', key) = CountOf(rows, key) + 1
                    \/ rows' = rows /\ "update" \in logged'
               ELSE CountOf(rows', key) = CountOf(rows, key)]_vars

C16_Witness ==
    /\ pc = "lines"
    /\ "update" \notin logged
    /\ Len(consumed) = 3
    /\ Triples(rows) = {<<14, "meme", 2>>, <<0, "python", 1>>}

\* Messages with every combination of a missing, null, empty, unparseable or
\* good timestamp and a missing, null, empty or good keyword.
TestTimestamps == {JNone, JStr(<<>>), JStr(TsBad), JStr(TsA)}
TestKeywords == {JNone, JStr(""), JStr("meme")}
TestMessages ==
    {JDict([timestamp |-> t, keyword_mentioned |-> k]) :
        t \in TestTimestamps, k \in TestKeywords}
    \cup {JDict([timestamp |-> t]) : t \in TestTimestamps}
    \cup {JDict([keyword_mentioned |-> k]) : k \in TestKeywords}

\* C17: process_message returns a key only for a record with a non-empty
\* parseable timestamp and a non-empty keyword; a step that reads a blank line
\* or a record line with a missing keyword, an empty timestamp or an
\* unparseable timestamp changes no row, moves the cursor past the line and
\* stays in the pass.
C17_SkippedLineChangesNothing ==
    /\ [](\A m \in TestMessages :
            process_message(m).ok <=> m = MessageA)
    /\ [][(/\ LineStep
           /\ \/ IsBlank(YieldedLine)
              \/ Text(YieldedLine) \in {<<"noKw">>, <<"emptyTs">>, <<"badTs">>}) =>
              (/\ IsBlank(YieldedLine)
                    \/ ~process_message(json_loads(Text(YieldedLine)).value).ok
               /\ rows' = rows
               /\ dbState' = dbState
               /\ pc' = "lines"
               /\ exitStatus' = exitStatus
               /\ idx' > idx
               /\ idx' = LineEnd(file, idx)
               /\ YieldedLine = SubSeq(file, idx + 1, idx'))]_vars

C17_Witness ==
    /\ pc = "done"
    /\ "interrupted" \notin logged
    /\ Len(consumed) = 3
    /\ IsBlank(consumed[1])
    /\ Text(consumed[2]) = <<"badTs">>
    /\ IsValid(consumed[3])
    /\ Triples(rows) = {<<14, "meme", 1>>}

\* C18: a call of consume_messages_from_file that has opened the file ends
\* (return, fatal exit or interrupt); it reads from offset 0, never goes back
\* to opening the file, returns only when every chunk of the file has been
\* read exactly once, with last_position at the end of the file, and nothing
\* of the process runs after it has ended.
C18_ExactlyOnePass ==
    /\ [](pc = "open" => <>(pc \in {"done", "exit"}))
    /\ [][/\ (pc = "open" /\ pc' = "lines") =>
                (idx' = 0 /\ last_position = 0 /\ consumed' = <<>>)
          /\ pc = "lines" => pc' \in {"lines", "done", "exit"}
          /\ pc \in {"done", "exit"} =>
                (pc' = pc /\ idx' = idx /\ consumed' = consumed /\ rows' = rows)
          /\ (pc = "lines" /\ pc' = "done" /\ "interrupted" \notin logged') =>
                (/\ idx = Len(file)
                 /\ Flatten(consumed) = file
                 /\ last_position' = Bytes(file)
                 /\ exitStatus' = 0)]_vars

C18_Witness ==
    /\ PassCompleted
    /\ Len(consumed) = 2
    /\ Len(file) > 2
    /\ Flatten(consumed) = file
    /\ last_position = Bytes(file)

====
